---- MODULE Spec2Model ----
(***************************************************************************)
(* A model of pandas_dwm.py: the DataFrame helpers (create_df, join,       *)
(* groupby, select/drop/filter, apply, load_const_column,                  *)
(* load_date_partition_cols) and the delete-by-query path                  *)
(* (delete_from_athena, _delete_s3_object).                                *)
(*                                                                         *)
(* Strings are sequences of one-character strings, so that suffixing,      *)
(* str.endswith, slicing and str.split are computed and not assumed.       *)
(* A DataFrame is a record [cols, types, rows]: the ordered column labels, *)
(* the dtype of each column ("int" or "ts") and the rows, each a sequence  *)
(* of integer cells aligned with cols.  NULL is the designated null        *)
(* (NaN/NaT).  A timestamp cell is the integer yyyymmdd, so that .dt.year, *)
(* .dt.month and .dt.day are arithmetic on the cell.                       *)
(* DataFrames live in a heap indexed by handle (object identity), so that  *)
(* in-place mutation of an argument is distinguishable from the creation   *)
(* of a new object.                                                        *)
(***************************************************************************)
EXTENDS Integers, Sequences, FiniteSets, TLC

VARIABLES
    heap,     \* sequence of DataFrames; a handle is an index into it
    pc,       \* position of the calling program
    last,     \* outcome of the last call: [op, status, err, ret]
    snap,     \* heap contents remembered by the caller before/after a call
    call,     \* arguments of the last call
    paths,    \* rows of the "$path" column returned by the query
    requests, \* bulk-delete requests received by the object store
    dl,       \* locals of _delete_s3_object: [bucket_name, keys, result]
    refused   \* the keys the object store reports as not deleted when asked

vars == <<heap, pc, last, snap, call, paths, requests, dl, refused>>

\* ----------------------------------------------------------------- strings

NULL == -1

cId   == <<"i", "d">>
cV    == <<"v">>
cW    == <<"w">>
cW_   == <<"w", "_">>
cK_y  == <<"k", "_", "y">>
cU_y  == <<"u", "_", "y">>
sNone == <<>>
s_y   == <<"_", "y">>
s_x   == <<"_", "x">>
sY    == <<"y">>
s_l   == <<"_", "l">>

\* str.endswith
EndsWith(s, suf) ==
    /\ Len(s) >= Len(suf)
    /\ SubSeq(s, Len(s) - Len(suf) + 1, Len(s)) = suf

\* ----------------------------------------------------------- sequence help

Range(s) == {s[i] : i \in DOMAIN s}

RECURSIVE SeqsUpTo(_, _)
SeqsUpTo(S, n) ==
    IF n = 0 THEN {<<>>}
    ELSE LET shorter == SeqsUpTo(S, n - 1)
         IN  shorter \cup {Append(s, x) : s \in {t \in shorter : Len(t) = n - 1}, x \in S}

RECURSIVE Flatten(_)
Flatten(ss) == IF ss = <<>> THEN <<>> ELSE Head(ss) \o Flatten(Tail(ss))

\* position of the first occurrence of x in s, 0 when absent
RECURSIVE IndexFrom(_, _, _)
IndexFrom(s, x, i) ==
    IF i > Len(s) THEN 0
    ELSE IF s[i] = x THEN i ELSE IndexFrom(s, x, i + 1)
IndexOf(s, x) == IndexFrom(s, x, 1)

Has(s, x) == \E i \in DOMAIN s : s[i] = x

\* the positions in the set S, in increasing order
RECURSIVE PickIdx(_)
PickIdx(S) ==
    IF S = {} THEN <<>>
    ELSE LET m == CHOOSE x \in S : \A y \in S : x <= y
         IN  <<m>> \o PickIdx(S \ {m})

\* ------------------------------------------------------------- DataFrames

DF(cols, types, rows) == [cols |-> cols, types |-> types, rows |-> rows]

\* the frame restricted to the column positions idx (in that order)
Project(df, idx) ==
    DF([i \in 1..Len(idx) |-> df.cols[idx[i]]],
       [i \in 1..Len(idx) |-> df.types[idx[i]]],
       [r \in 1..Len(df.rows) |-> [i \in 1..Len(idx) |-> df.rows[r][idx[i]]]])

\* the cells of row under the labels keys (first column of each label)
KeyOf(df, row, keys) == [i \in 1..Len(keys) |-> row[IndexOf(df.cols, keys[i])]]

\* create_df(cols, rows): a new DataFrame object.  The dtypes are those of
\* the values of rows (or, for a frame read by read_athena, of the query's
\* columns); they are given with the rows.
create_df(h, cols, types, rows) == Append(h, DF(cols, types, rows))

Ok(h, op, ret) == [heap |-> h, op |-> op, status |-> "ok", err |-> "", ret |-> ret]
Raise(h, op, err) == [heap |-> h, op |-> op, status |-> "error", err |-> err, ret |-> 0]

\* ------------------------------------------------- pandas.merge (library)

None == <<>>
Some(x) == <<x>>
IsNone(o) == o = <<>>
Get(o) == o[1]

HowKinds == {"inner", "left", "right", "outer"}

RECURSIVE LexLess(_, _)
LexLess(a, b) ==
    IF a = <<>> \/ b = <<>> THEN a = <<>> /\ b # <<>>
    ELSE IF Head(a) # Head(b) THEN Head(a) < Head(b)
    ELSE LexLess(Tail(a), Tail(b))

RECURSIVE SortKeys(_)
SortKeys(S) ==
    IF S = {} THEN <<>>
    ELSE LET m == CHOOSE x \in S : \A y \in S : y = x \/ LexLess(x, y)
         IN  <<m>> \o SortKeys(S \ {m})

\* The join keys pandas resolves from (left_on, right_on, on), or the error
\* it raises: with none of the three given it falls back to the columns the
\* two frames have in common.
MergeKeys(left, right, left_on, right_on, on) ==
    LET common == SelectSeq(left.cols, LAMBDA c : Has(right.cols, c))
        res(e, l, r) == [err |-> e, lon |-> l, ron |-> r]
        chk(l, r) ==
            IF Len(l) # Len(r) THEN res("ValueError", <<>>, <<>>)
            ELSE IF \E i \in DOMAIN l : ~Has(left.cols, l[i]) \/ ~Has(right.cols, r[i])
                 THEN res("KeyError", <<>>, <<>>)
            ELSE res("", l, r)
    IN  IF IsNone(on) /\ IsNone(left_on) /\ IsNone(right_on)
        THEN IF common = <<>> THEN res("MergeError", <<>>, <<>>) ELSE chk(common, common)
        ELSE IF ~IsNone(on)
        THEN IF ~IsNone(left_on) \/ ~IsNone(right_on)
             THEN res("MergeError", <<>>, <<>>)
             ELSE chk(Get(on), Get(on))
        ELSE IF IsNone(left_on) \/ IsNone(right_on) THEN res("MergeError", <<>>, <<>>)
        ELSE chk(Get(left_on), Get(right_on))

\* The rows of the structural join.  rk: the positions of the right frame's
\* columns that survive (a right key named like its left key is dropped and
\* its value is carried by the left key's column).
MergeRows(left, right, lon, ron, how, rk) ==
    LET nL == Len(left.cols)
        rpart(r) == [j \in 1..Len(rk) |-> r[rk[j]]]
        nulls(n) == [j \in 1..n |-> NULL]
        both(l, r) == l \o rpart(r)
        lonly(l) == l \o nulls(Len(rk))
        keyFromRight(c, r) ==
            LET hit == {i \in DOMAIN lon : lon[i] = ron[i] /\ IndexOf(left.cols, lon[i]) = c}
            IN  IF hit = {} THEN NULL
                ELSE r[IndexOf(right.cols, ron[CHOOSE i \in hit : TRUE])]
        ronly(r) == [c \in 1..nL |-> keyFromRight(c, r)] \o rpart(r)
        lk(l) == KeyOf(left, l, lon)
        rkey(r) == KeyOf(right, r, ron)
        rmatch(k) == SelectSeq(right.rows, LAMBDA r : rkey(r) = k)
        lmatch(k) == SelectSeq(left.rows, LAMBDA l : lk(l) = k)
        forLeft(l, keepUnmatched) ==
            LET ms == rmatch(lk(l))
            IN  IF ms = <<>> THEN (IF keepUnmatched THEN <<lonly(l)>> ELSE <<>>)
                ELSE [j \in 1..Len(ms) |-> both(l, ms[j])]
        forRight(r) ==
            LET ms == lmatch(rkey(r))
            IN  IF ms = <<>> THEN <<ronly(r)>>
                ELSE [j \in 1..Len(ms) |-> both(ms[j], r)]
        forKey(k) ==
            LET ls == lmatch(k)
                rs == rmatch(k)
            IN  IF rs = <<>> THEN [j \in 1..Len(ls) |-> lonly(ls[j])]
                ELSE IF ls = <<>> THEN [j \in 1..Len(rs) |-> ronly(rs[j])]
                ELSE Flatten([i \in 1..Len(ls) |-> [j \in 1..Len(rs) |-> both(ls[i], rs[j])]])
        keys == SortKeys({lk(l) : l \in Range(left.rows)} \cup {rkey(r) : r \in Range(right.rows)})
    IN  IF how = "inner"
          THEN Flatten([i \in 1..Len(left.rows) |-> forLeft(left.rows[i], FALSE)])
        ELSE IF how = "left"
          THEN Flatten([i \in 1..Len(left.rows) |-> forLeft(left.rows[i], TRUE)])
        ELSE IF how = "right"
          THEN Flatten([i \in 1..Len(right.rows) |-> forRight(right.rows[i])])
        ELSE Flatten([i \in 1..Len(keys) |-> forKey(keys[i])])

\* pd.merge(left, right, left_on, right_on, on, how, suffixes): the outcome
\* [err, df].  dup is what the installed pandas does when suffixing yields a
\* label that is already taken: "raise" (MergeError) or "keep" (the frame
\* carries both columns under one label).
pd_merge(left, right, left_on, right_on, on, how, suffixes, dup) ==
    LET mk == MergeKeys(left, right, left_on, right_on, on)
        lon == mk.lon
        ron == mk.ron
        dropped == {ron[i] : i \in {j \in DOMAIN ron : lon[j] = ron[j]}}
        rk == PickIdx({i \in DOMAIN right.cols : right.cols[i] \notin dropped})
        overlap == Range(left.cols) \cap {right.cols[rk[j]] : j \in DOMAIN rk}
        lname(c) == IF c \in overlap THEN c \o suffixes[1] ELSE c
        rname(c) == IF c \in overlap THEN c \o suffixes[2] ELSE c
        cols == [i \in 1..Len(left.cols) |-> lname(left.cols[i])]
                  \o [j \in 1..Len(rk) |-> rname(right.cols[rk[j]])]
        types == left.types \o [j \in 1..Len(rk) |-> right.types[rk[j]]]
        fail(e) == [err |-> e, df |-> DF(<<>>, <<>>, <<>>)]
    IN  IF mk.err # "" THEN fail(mk.err)
        ELSE IF overlap # {} /\ suffixes[1] = <<>> /\ suffixes[2] = <<>> THEN fail("ValueError")
        ELSE IF dup = "raise" /\ Cardinality(Range(cols)) # Len(cols) THEN fail("MergeError")
        ELSE [err |-> "", df |-> DF(cols, types, MergeRows(left, right, lon, ron, how, rk))]

\* ------------------------------------------------------- join and _drop_y

\* _drop_y with the drop not made in place: the frame is left as merged.
_drop_y_not_inplace(h, d) == h

\* _drop_y(df): df.drop([x for x in df if x.endswith('_y')], axis=1,
\* inplace=True) -- the object at handle d loses those columns.
_drop_y(h, d) ==
    [h EXCEPT ![d] = Project(h[d], PickIdx({i \in DOMAIN h[d].cols :
                                              ~EndsWith(h[d].cols[i], s_y)}))]

JoinSpecError == "Exception: Erros on the selected parameters."

\* join returning the merged frame as it is, the call of _drop_y left out
join_without_cleanup(h, d1, d2, left_on, right_on, on, how, suffixes, dup) ==
    LET m == IF IsNone(on)
             THEN pd_merge(h[d1], h[d2], left_on, right_on, None, how, suffixes, dup)
             ELSE pd_merge(h[d1], h[d2], None, None, on, how, suffixes, dup)
    IN  IF ~IsNone(on) /\ ~(IsNone(right_on) /\ IsNone(left_on))
          THEN Raise(h, "join", JoinSpecError)
        ELSE IF m.err # "" THEN Raise(h, "join", m.err)
        ELSE Ok(Append(h, m.df), "join", Len(h) + 1)

\* join with the cleanup made on df1 and not on the merged frame
join_drops_on_df1(h, d1, d2, left_on, right_on, on, how, suffixes, dup) ==
    LET m == IF IsNone(on)
             THEN pd_merge(h[d1], h[d2], left_on, right_on, None, how, suffixes, dup)
             ELSE pd_merge(h[d1], h[d2], None, None, on, how, suffixes, dup)
        new == Len(h) + 1
    IN  IF ~IsNone(on) /\ ~(IsNone(right_on) /\ IsNone(left_on))
          THEN Raise(h, "join", JoinSpecError)
        ELSE IF m.err # "" THEN Raise(h, "join", m.err)
        ELSE Ok(_drop_y(Append(h, m.df), d1), "join", new)

\* join(df1, df2, left_on, right_on, on, how, _suffixes) on the objects at
\* handles d1, d2: the new heap and the outcome.
join(h, d1, d2, left_on, right_on, on, how, suffixes, dup) ==
    LET m == IF IsNone(on)
             THEN pd_merge(h[d1], h[d2], left_on, right_on, None, how, suffixes, dup)
             ELSE pd_merge(h[d1], h[d2], None, None, on, how, suffixes, dup)
        new == Len(h) + 1
    IN  IF ~IsNone(on) /\ ~(IsNone(right_on) /\ IsNone(left_on))
          THEN Raise(h, "join", JoinSpecError)
        ELSE IF m.err # "" THEN Raise(h, "join", m.err)
        ELSE Ok(_drop_y(Append(h, m.df), new), "join", new)

DefaultSuffixes == <<sNone, s_y>>

\* ------------------------------------------------------ the join program

JoinMaxLeftRows == 2
JoinMaxRightRows == 1

Vals == {0, 1}
PandasDup == {"raise", "keep"}

NoCall == [op |-> "", status |-> "", err |-> "", ret |-> 0]
NoArgs == <<>>
NoDl == [bucket_name |-> <<>>, keys |-> <<>>, result |-> {}]

\* rows over n columns: the first two cells range over Vals, the others are 0
RowsOver(n) ==
    {[i \in 1..n |-> IF i = 1 THEN a ELSE IF i = 2 THEN b ELSE 0] : a \in Vals, b \in Vals}

IntTypes(n) == [i \in 1..n |-> "int"]

JoinLeftSchemas == {<<cId, cV>>, <<cId, cV, cK_y>>, <<cId, cW_>>}
JoinRightSchemas == {<<cId, cV>>, <<cId, cW_, cU_y>>, <<cK_y, cV>>}

JoinArg(lo, ro, o, how, suf) ==
    [left_on |-> lo, right_on |-> ro, on |-> o, how |-> how, suffixes |-> suf]

JoinSuffixes == {DefaultSuffixes, <<s_l, s_x>>, <<sNone, s_x>>, <<s_y, s_x>>,
                 <<sNone, sY>>, <<sNone, sNone>>}

JoinArgs ==
    {JoinArg(None, None, Some(<<cId>>), how, suf) : how \in HowKinds, suf \in JoinSuffixes}
    \cup {JoinArg(lo, ro, o, "inner", DefaultSuffixes) :
            lo \in {None, Some(<<cId>>)},
            ro \in {None, Some(<<cId>>), Some(<<cK_y>>)},
            o \in {None, Some(<<cId>>)}}

InitJoin ==
    /\ heap = <<>>
    /\ pc = "left"
    /\ last = NoCall
    /\ call = NoArgs
    /\ snap = <<>>
    /\ paths = <<>>
    /\ requests = <<>>
    /\ dl = NoDl
    /\ refused = {}

JCreateLeft ==
    /\ pc = "left"
    /\ \E cols \in JoinLeftSchemas :
         \E rows \in SeqsUpTo(RowsOver(Len(cols)), JoinMaxLeftRows) :
            heap' = create_df(heap, cols, IntTypes(Len(cols)), rows)
    /\ pc' = "right"
    /\ UNCHANGED <<last, snap, call, paths, requests, dl, refused>>

JCreateRight ==
    /\ pc = "right"
    /\ \E cols \in JoinRightSchemas :
         \E rows \in SeqsUpTo(RowsOver(Len(cols)), JoinMaxRightRows) :
            heap' = create_df(heap, cols, IntTypes(Len(cols)), rows)
    /\ pc' = "call"
    /\ UNCHANGED <<last, snap, call, paths, requests, dl, refused>>

JCall ==
    /\ pc = "call"
    /\ \E a \in JoinArgs, dup \in PandasDup :
         LET r == join(heap, 1, 2, a.left_on, a.right_on, a.on, a.how, a.suffixes, dup)
         IN  /\ heap' = r.heap
             /\ last' = [op |-> r.op, status |-> r.status, err |-> r.err, ret |-> r.ret]
             /\ call' = a
    /\ snap' = heap
    /\ pc' = "done"
    /\ UNCHANGED <<paths, requests, dl, refused>>

NextJoin == JCreateLeft \/ JCreateRight \/ JCall

SpecJoin == InitJoin /\ [][NextJoin]_vars

\* ------------------------------------------------------- claims on join

JLeft == heap[1]
JRight == heap[2]
JResult == heap[last.ret]
JDone == pc = "done" /\ last.op = "join"
OnMode(keys) == call.on = Some(keys) /\ IsNone(call.left_on) /\ IsNone(call.right_on)

C1Case ==
    /\ JDone
    /\ JLeft.cols = <<cId, cV>>
    /\ JRight.cols = <<cId, cV>>
    /\ OnMode(<<cId>>)
    /\ call.suffixes = DefaultSuffixes

\* C1: joining left = {id, v} with right = {id, v} on id under the default
\* suffix pair succeeds with the columns id and v, once each and no suffixed
\* copy, and for every id present on both sides the result holds, for each
\* left row of that id, one row per matching right row carrying the left
\* row's v (never the right row's).
C1_JoinLeftWins ==
    C1Case =>
        /\ last.status = "ok"
        /\ Len(JResult.cols) = 2
        /\ Range(JResult.cols) = {cId, cV}
        /\ \A k \in Vals, x \in Vals :
             LET nl == Cardinality({i \in DOMAIN JLeft.rows : JLeft.rows[i] = <<k, x>>})
                 nr == Cardinality({j \in DOMAIN JRight.rows : JRight.rows[j][1] = k})
                 ci == IndexOf(JResult.cols, cId)
                 cv == IndexOf(JResult.cols, cV)
             IN  (nr > 0 /\ \E i \in DOMAIN JLeft.rows : JLeft.rows[i][1] = k) =>
                    Cardinality({t \in DOMAIN JResult.rows :
                                    /\ JResult.rows[t][ci] = k
                                    /\ JResult.rows[t][cv] = x}) = nl * nr

C1_Witness ==
    /\ C1Case
    /\ last.status = "ok"
    /\ \E i \in DOMAIN JLeft.rows, j \in DOMAIN JRight.rows :
         /\ JLeft.rows[i][1] = JRight.rows[j][1]
         /\ JLeft.rows[i][2] # JRight.rows[j][2]
    /\ JResult.rows # <<>>

C2Both == ~IsNone(call.on) /\ (~IsNone(call.left_on) \/ ~IsNone(call.right_on))
C2Neither == IsNone(call.on) /\ IsNone(call.left_on) /\ IsNone(call.right_on)

\* C2: a join called with `on` together with left_on or right_on, or with
\* none of the three, ends in the invalid-join-spec error and returns no
\* relation.
C2_InvalidJoinSpec ==
    (JDone /\ (C2Both \/ C2Neither)) =>
        /\ last.status = "error"
        /\ last.err = JoinSpecError
        /\ last.ret = 0

\* the names that collide: in both inputs and not a join key
Collisions == (Range(JLeft.cols) \cap Range(JRight.cols)) \ Range(Get(call.on))

\* C9: under any configured suffix pair, for every colliding non-key name
\* the result has no column named name + right_suffix and keeps the left
\* column under name + left_suffix.
C9_CleanupFollowsSuffixes ==
    (JDone /\ last.status = "ok" /\ OnMode(<<cId>>)) =>
        \A c \in Collisions :
            /\ ~Has(JResult.cols, c \o call.suffixes[2])
            /\ Has(JResult.cols, c \o call.suffixes[1])

\* C10: a relation returned by a successful join has no column whose name
\* ends with "_y", whatever the suffix pair and the inputs.
C10_NoColumnEndsWithY ==
    (JDone /\ last.status = "ok") =>
        \A i \in DOMAIN JResult.cols : ~EndsWith(JResult.cols[i], s_y)

C10_Witness ==
    /\ JDone
    /\ last.status = "ok"
    /\ call.suffixes = <<s_l, s_x>>
    /\ Has(JLeft.cols, cK_y)
    /\ Has(JRight.cols, cU_y)
    /\ ~Has(JResult.cols, cK_y)
    /\ Has(JResult.cols, cW_)

\* ----------------------------------------------------------------- groupby

cG == <<"g">>
cH == <<"h">>
cX == <<"x">>

GroupByError == "Exception: Only sum implemented."

RECURSIVE Fact(_)
Fact(n) == IF n <= 1 THEN 1 ELSE n * Fact(n - 1)

RECURSIVE SumCells(_)
SumCells(cells) ==
    IF cells = <<>> THEN 0
    ELSE (IF Head(cells) = NULL THEN 0 ELSE Head(cells)) + SumCells(Tail(cells))

\* the group keys in the order of their first appearance (sort=False)
RECURSIVE FirstSeen(_)
FirstSeen(ks) ==
    IF ks = <<>> THEN <<>>
    ELSE <<Head(ks)>> \o FirstSeen(SelectSeq(Tail(ks), LAMBDA k : k # Head(ks)))

GroupKeysUnsorted(df, columns) ==
    FirstSeen(SelectSeq([r \in 1..Len(df.rows) |-> KeyOf(df, df.rows[r], columns)],
                        LAMBDA k : \A i \in DOMAIN k : k[i] # NULL))

\* df.groupby(columns): the group keys, ascending (sort=True); a row with a
\* null in a group column belongs to no group (dropna=True).
GroupKeys(df, columns) ==
    SortKeys({k \in {KeyOf(df, row, columns) : row \in Range(df.rows)} :
                \A i \in DOMAIN k : k[i] # NULL})

\* .sum() of one group's cells: nulls are skipped, an all-null group sums to 0
AggSum(cells) == SumCells(cells)

\* .mean() of one group's cells, nulls skipped, NULL when all are null.  The
\* cell holds mean * scale with scale = (rows of the frame)!, which is exact.
AggMean(cells, scale) ==
    LET nn == SelectSeq(cells, LAMBDA c : c # NULL)
    IN  IF nn = <<>> THEN NULL ELSE (SumCells(nn) * scale) \div Len(nn)

\* groupby(df, columns, on, how) on the object at handle d
groupby(h, d, columns, on, how) ==
    LET df == h[d]
        keys == GroupKeys(df, columns)
        grp(k) == SelectSeq(df.rows, LAMBDA row : KeyOf(df, row, columns) = k)
        cells(k, c) == [r \in 1..Len(grp(k)) |-> grp(k)[r][IndexOf(df.cols, c)]]
        agg(k, c) == IF how = "sum" THEN AggSum(cells(k, c))
                     ELSE AggMean(cells(k, c), Fact(Len(df.rows)))
        out == DF(columns \o on,
                  [i \in 1..Len(columns) |-> df.types[IndexOf(df.cols, columns[i])]]
                     \o [i \in 1..Len(on) |-> IF how = "sum" THEN "int" ELSE "mean"],
                  [i \in 1..Len(keys) |->
                     keys[i] \o [j \in 1..Len(on) |-> agg(keys[i], on[j])]])
    IN  IF how \notin {"sum", "mean"} THEN Raise(h, "groupby", GroupByError)
        ELSE IF \E i \in DOMAIN columns : ~Has(df.cols, columns[i])
          THEN Raise(h, "groupby", "KeyError")
        ELSE IF \E i \in DOMAIN on : ~Has(df.cols, on[i])
          THEN Raise(h, "groupby", "KeyError")
        ELSE Ok(Append(h, out), "groupby", Len(h) + 1)

\* ---------------------------------------------------- the groupby program

GroupMaxRows == 3

GroupInputs ==
    {DF(<<cG, cX>>, IntTypes(2), rows) :
        rows \in SeqsUpTo({<<g, x>> : g \in {0, 1, NULL}, x \in {1, 2, NULL}}, GroupMaxRows)}
    \cup
    {DF(<<cG, cH, cX>>, IntTypes(3), rows) :
        rows \in SeqsUpTo({<<g, k, x>> : g \in {0, 1, NULL}, k \in {0, 1}, x \in {1, 2}},
                          GroupMaxRows)}

GroupArgs ==
    {[columns |-> c, on |-> <<cX>>, how |-> w] :
        c \in {<<cG>>, <<cH, cG>>}, w \in {"sum", "mean", "max"}}
    \cup {[columns |-> <<cG>>, on |-> o, how |-> "sum"] : o \in {<<cX, cH>>, <<cW>>}}

InitGroup ==
    /\ heap = <<>>
    /\ pc = "create"
    /\ last = NoCall
    /\ call = NoArgs
    /\ snap = <<>>
    /\ paths = <<>>
    /\ requests = <<>>
    /\ dl = NoDl
    /\ refused = {}

GCreate ==
    /\ pc = "create"
    /\ \E df \in GroupInputs : heap' = create_df(heap, df.cols, df.types, df.rows)
    /\ pc' = "call"
    /\ UNCHANGED <<last, snap, call, paths, requests, dl, refused>>

GCall ==
    /\ pc = "call"
    /\ \E a \in GroupArgs :
         LET r == groupby(heap, 1, a.columns, a.on, a.how)
         IN  /\ heap' = r.heap
             /\ last' = [op |-> r.op, status |-> r.status, err |-> r.err, ret |-> r.ret]
             /\ call' = a
    /\ snap' = heap
    /\ pc' = "done"
    /\ UNCHANGED <<paths, requests, dl, refused>>

NextGroup == GCreate \/ GCall

SpecGroup == InitGroup /\ [][NextGroup]_vars

\* ---------------------------------------------------- claims on groupby

GIn == heap[1]
GOut == heap[last.ret]
GDoneSum == pc = "done" /\ last.op = "groupby" /\ last.status = "ok" /\ call.how = "sum"
GKey(df, row) == KeyOf(df, row, call.columns)
NoNull(k) == \A i \in DOMAIN k : k[i] # NULL

RECURSIVE SumOfRows(_, _, _)
SumOfRows(df, c, R) ==
    IF R = {} THEN 0
    ELSE LET r == CHOOSE r \in R : TRUE
             cell == df.rows[r][IndexOf(df.cols, c)]
         IN  (IF cell = NULL THEN 0 ELSE cell) + SumOfRows(df, c, R \ {r})

\* the result is the aggregation of the groups whose keys are Keys
GroupedAs(Keys) ==
    /\ GOut.cols = call.columns \o call.on
    /\ Len(GOut.rows) = Cardinality(Keys)
    /\ {GKey(GOut, t) : t \in Range(GOut.rows)} = Keys
    /\ \A i \in DOMAIN GOut.rows : \A j \in DOMAIN GOut.rows :
         i < j => LexLess(GKey(GOut, GOut.rows[i]), GKey(GOut, GOut.rows[j]))
    /\ \A i \in DOMAIN GOut.rows : \A c \in Range(call.on) :
         GOut.rows[i][IndexOf(GOut.cols, c)] =
            SumOfRows(GIn, c, {r \in DOMAIN GIn.rows :
                                  GKey(GIn, GIn.rows[r]) = GKey(GOut, GOut.rows[i])})

\* C5 as stated: with reducer sum the result has one row per distinct tuple
\* of group-column values present in the input, ascending by group key, the
\* group columns as plain columns, each target holding the group's sum.
C5_OneRowPerTuplePresent ==
    GDoneSum => GroupedAs({GKey(GIn, row) : row \in Range(GIn.rows)})

\* C5 amended: one row per distinct tuple of group-column values among the
\* rows whose group-column values are all non-null; rows with a null group
\* value are left out; ascending by group key; each target holds the sum of
\* its non-null cells over the group.
C5_OneRowPerNonNullTuple ==
    GDoneSum => GroupedAs({k \in {GKey(GIn, row) : row \in Range(GIn.rows)} : NoNull(k)})

C5_Witness ==
    /\ GDoneSum
    /\ call.columns = <<cG>>
    /\ GIn.rows = <<<<1, 1>>, <<0, 1>>, <<0, 2>>>>
    /\ GOut.rows = <<<<0, 3>>, <<1, 1>>>>

\* ------------------------------------------------ load_date_partition_cols

cTs == <<"t", "s">>
cPAno == <<"p", "_", "a", "n", "o">>
cPMes == <<"p", "_", "m", "e", "s">>
cPDia == <<"p", "_", "d", "i", "a">>

PartitionKeyError == "Exception: partition_cols_config' must be a dict with year, month, and day."

\* the default partition_cols_config, in the dict's insertion order
DefaultPartitionConfig == <<<<"year", cPAno>>, <<"month", cPMes>>, <<"day", cPDia>>>>

\* Series.dt.year / .dt.month / .dt.day of a timestamp cell yyyymmdd (NaT
\* gives a null)
DtYear(c) == IF c = NULL THEN NULL ELSE c \div 10000
DtMonth(c) == IF c = NULL THEN NULL ELSE (c \div 100) % 100
DtDay(c) == IF c = NULL THEN NULL ELSE c % 100

\* an assignment that always adds a column, also when the label exists
AssignColumnAppend(df, label, type, cells) ==
    DF(Append(df.cols, label), Append(df.types, type),
       [r \in 1..Len(df.rows) |-> Append(df.rows[r], cells[r])])

\* df[label] = cells: the column is overwritten where it stands, or added
\* as the last column when the frame has none of that label
AssignColumn(df, label, type, cells) ==
    IF Has(df.cols, label)
    THEN LET p == IndexOf(df.cols, label)
         IN  DF(df.cols, [df.types EXCEPT ![p] = type],
                [r \in 1..Len(df.rows) |-> [df.rows[r] EXCEPT ![p] = cells[r]]])
    ELSE DF(Append(df.cols, label), Append(df.types, type),
            [r \in 1..Len(df.rows) |-> Append(df.rows[r], cells[r])])

\* one iteration of the loop with an unknown key passed over in silence
PartitionStepLenient(df, col, key, value) ==
    LET p == IndexOf(df.cols, col)
        part(c) == IF key = "year" THEN DtYear(c)
                   ELSE IF key = "month" THEN DtMonth(c) ELSE DtDay(c)
    IN  IF key \notin {"year", "month", "day"} THEN [err |-> "", df |-> df]
        ELSE IF p = 0 THEN [err |-> "KeyError", df |-> df]
        ELSE IF df.types[p] # "ts" THEN [err |-> "AttributeError", df |-> df]
        ELSE [err |-> "",
              df |-> AssignColumn(df, value, "int",
                                  [r \in 1..Len(df.rows) |-> part(df.rows[r][p])])]

\* one iteration of the loop over partition_cols_config.items(): df[col]
\* raises KeyError when the column is missing and .dt raises AttributeError
\* when its values are not datetimes
PartitionStep(df, col, key, value) ==
    LET p == IndexOf(df.cols, col)
        part(c) == IF key = "year" THEN DtYear(c)
                   ELSE IF key = "month" THEN DtMonth(c) ELSE DtDay(c)
    IN  IF key \notin {"year", "month", "day"} THEN [err |-> PartitionKeyError, df |-> df]
        ELSE IF p = 0 THEN [err |-> "KeyError", df |-> df]
        ELSE IF df.types[p] # "ts" THEN [err |-> "AttributeError", df |-> df]
        ELSE [err |-> "",
              df |-> AssignColumn(df, value, "int",
                                  [r \in 1..Len(df.rows) |-> part(df.rows[r][p])])]

RECURSIVE PartitionLoop(_, _, _)
PartitionLoop(df, col, config) ==
    IF config = <<>> THEN [err |-> "", df |-> df]
    ELSE LET st == PartitionStep(df, col, Head(config)[1], Head(config)[2])
         IN  IF st.err # "" THEN st ELSE PartitionLoop(st.df, col, Tail(config))

\* load_date_partition_cols(df, col, partition_cols_config) on the object at
\* handle d: the object is changed in place, also when the call raises, and
\* the call returns the same object
load_date_partition_cols(h, d, col, config) ==
    LET r == PartitionLoop(h[d], col, config)
        h2 == [h EXCEPT ![d] = r.df]
    IN  IF r.err # "" THEN Raise(h2, "load_date_partition_cols", r.err)
        ELSE Ok(h2, "load_date_partition_cols", d)

\* -------------------------------------------------- the column operators

\* a Series is kept as a frame of one column carrying the Series' name
Series(name, type, cells) ==
    DF(<<name>>, <<type>>, [r \in 1..Len(cells) |-> <<cells[r]>>])

ColumnCells(df, p) == [r \in 1..Len(df.rows) |-> df.rows[r][p]]

\* cast_column(df, col, _type): df[col].astype(_type), a new Series.  An
\* integer dtype cannot hold a null; a datetime column goes to neither.
cast_column(h, d, col, type) ==
    LET df == h[d]
        p == IndexOf(df.cols, col)
    IN  IF p = 0 THEN Raise(h, "cast_column", "KeyError")
        ELSE IF df.types[p] = "ts" THEN Raise(h, "cast_column", "TypeError")
        ELSE IF type = "int" /\ \E r \in DOMAIN df.rows : df.rows[r][p] = NULL
          THEN Raise(h, "cast_column", "ValueError")
        ELSE Ok(Append(h, Series(col, type, ColumnCells(df, p))), "cast_column", Len(h) + 1)

\* drop_duplicates(df): df.drop_duplicates(), the first of equal rows kept
drop_duplicates(h, d) ==
    LET df == h[d]
        keep == PickIdx({r \in DOMAIN df.rows :
                            \A q \in 1..(r - 1) : df.rows[q] # df.rows[r]})
    IN  Ok(Append(h, DF(df.cols, df.types, [i \in 1..Len(keep) |-> df.rows[keep[i]]])),
           "drop_duplicates", Len(h) + 1)

\* drop_columns(df, cols): df.drop(columns=cols)
drop_columns(h, d, cols) ==
    LET df == h[d]
    IN  IF \E i \in DOMAIN cols : ~Has(df.cols, cols[i])
          THEN Raise(h, "drop_columns", "KeyError")
        ELSE Ok(Append(h, Project(df, PickIdx({i \in DOMAIN df.cols :
                                                 ~Has(cols, df.cols[i])}))),
                "drop_columns", Len(h) + 1)

\* filter_column(df, col, list_of_values): df[df[col].isin(list_of_values)]
filter_column(h, d, col, values) ==
    LET df == h[d]
        p == IndexOf(df.cols, col)
    IN  IF p = 0 THEN Raise(h, "filter_column", "KeyError")
        ELSE Ok(Append(h, DF(df.cols, df.types,
                             SelectSeq(df.rows, LAMBDA row : row[p] \in values))),
                "filter_column", Len(h) + 1)

\* select_columns(df, cols): df[cols].copy()
select_columns(h, d, cols) ==
    LET df == h[d]
    IN  IF \E i \in DOMAIN cols : ~Has(df.cols, cols[i])
          THEN Raise(h, "select_columns", "KeyError")
        ELSE Ok(Append(h, Project(df, [i \in 1..Len(cols) |-> IndexOf(df.cols, cols[i])])),
                "select_columns", Len(h) + 1)

\* the functions handed to the apply operators
Func1(f, x) == IF x = NULL THEN NULL ELSE IF f = "inc" THEN x + 1 ELSE 0 - x
Func0(f) == IF f = "one" THEN 1 ELSE 0
FuncN(f, args) == IF \E i \in DOMAIN args : args[i] = NULL THEN NULL ELSE SumCells(args)

\* apply_lambda(df, col, func, empty): a new Series of func(x), or of func()
\* when empty
apply_lambda(h, d, col, func, empty) ==
    LET df == h[d]
        p == IndexOf(df.cols, col)
    IN  IF p = 0 THEN Raise(h, "apply_lambda", "KeyError")
        ELSE Ok(Append(h, Series(col, "int",
                   [r \in 1..Len(df.rows) |->
                       IF empty THEN Func0(func) ELSE Func1(func, df.rows[r][p])])),
                "apply_lambda", Len(h) + 1)

\* apply_df_lambda(df, cols, func): a new, unnamed Series of func(*row[cols]);
\* with no rows nothing is looked up and the result is an empty frame
apply_df_lambda(h, d, cols, func) ==
    LET df == h[d]
    IN  IF df.rows # <<>> /\ \E i \in DOMAIN cols : ~Has(df.cols, cols[i])
          THEN Raise(h, "apply_df_lambda", "KeyError")
        ELSE Ok(Append(h, Series(<<>>, "int",
                   [r \in 1..Len(df.rows) |-> FuncN(func, KeyOf(df, df.rows[r], cols))])),
                "apply_df_lambda", Len(h) + 1)

\* load_const_column(df, col, const): df[col] = const on the object itself
load_const_column(h, d, col, const) ==
    Ok([h EXCEPT ![d] = AssignColumn(h[d], col, "int", [r \in 1..Len(h[d].rows) |-> const])],
       "load_const_column", d)

\* ------------------------------------------------- the partition program

PartMaxRows == 1
PartMaxMap == 3

Dates == {20240307, 20231225, NULL}

PartInputs ==
    {DF(<<cTs>>, <<t>>, rows) :
        t \in {"ts", "int"}, rows \in SeqsUpTo({<<c>> : c \in Dates}, PartMaxRows)}
    \cup {DF(<<cTs, cPAno>>, <<"ts", "int">>, rows) :
        rows \in SeqsUpTo({<<c, 0>> : c \in Dates}, PartMaxRows)}

PartKeys == {"year", "month", "day", "hour"}
PartDests == {cTs, cPAno, cPMes}

\* dicts of at most PartMaxMap entries: the keys of a dict are distinct
PartConfigs ==
    {m \in SeqsUpTo(PartKeys \X PartDests, PartMaxMap) :
        \A i \in DOMAIN m : \A j \in DOMAIN m : i # j => m[i][1] # m[j][1]}
    \cup {DefaultPartitionConfig}

InitPart ==
    /\ heap = <<>>
    /\ pc = "create"
    /\ last = NoCall
    /\ call = NoArgs
    /\ snap = <<>>
    /\ paths = <<>>
    /\ requests = <<>>
    /\ dl = NoDl
    /\ refused = {}

PCreate ==
    /\ pc = "create"
    /\ \E df \in PartInputs : heap' = create_df(heap, df.cols, df.types, df.rows)
    /\ pc' = "first"
    /\ UNCHANGED <<last, snap, call, paths, requests, dl, refused>>

\* the first call
PDerive ==
    /\ pc = "first"
    /\ \E col \in {cTs, cW}, config \in PartConfigs :
         LET r == load_date_partition_cols(heap, 1, col, config)
         IN  /\ heap' = r.heap
             /\ last' = [op |-> r.op, status |-> r.status, err |-> r.err, ret |-> r.ret]
             /\ call' = [col |-> col, config |-> config]
             /\ snap' = [before |-> heap[1], after |-> r.heap[1], status |-> r.status]
    /\ pc' = "second"
    /\ UNCHANGED <<paths, requests, dl, refused>>

\* the same call made again, with the same arguments, on the same object
PDeriveAgain ==
    /\ pc = "second"
    /\ snap.status = "ok"
    /\ LET r == load_date_partition_cols(heap, 1, call.col, call.config)
       IN  /\ heap' = r.heap
           /\ last' = [op |-> r.op, status |-> r.status, err |-> r.err, ret |-> r.ret]
    /\ pc' = "done"
    /\ UNCHANGED <<snap, call, paths, requests, dl, refused>>

NextPart == PCreate \/ PDerive \/ PDeriveAgain

SpecPart == InitPart /\ [][NextPart]_vars

\* ------------------------------------------- claims on partition keys

KnownPart == {"year", "month", "day"}
ValidConfig(m) == \A i \in DOMAIN m : m[i][1] \in KnownPart
PRerun == pc = "done" /\ snap.status = "ok" /\ ValidConfig(call.config)

\* C6 as stated: for any valid mapping, also one whose destination is the
\* timestamp column or another destination, the second run succeeds and
\* leaves the relation as the first run left it.
C6_RerunIdentical ==
    PRerun => (last.status = "ok" /\ heap[1] = snap.after)

\* C6 amended: for any valid mapping none of whose destinations is the
\* timestamp column (destinations may coincide with each other), the second
\* run succeeds and leaves the relation as the first run left it.
C6_RerunIdenticalUnlessTimestampOverwritten ==
    (PRerun /\ \A i \in DOMAIN call.config : call.config[i][2] # call.col) =>
        (last.status = "ok" /\ heap[1] = snap.after)

C6_Witness ==
    /\ PRerun
    /\ last.status = "ok"
    /\ heap[1] = snap.after
    /\ snap.after # snap.before
    /\ Len(call.config) = 2
    /\ call.config[1][2] = call.config[2][2]
    /\ Has(snap.before.cols, call.config[1][2])
    /\ heap[1].rows # <<>>
    /\ heap[1].rows[1][1] = 20240307
    /\ heap[1].rows[1][2] = 3

FirstUnknown(m) == CHOOSE i \in DOMAIN m :
                      m[i][1] \notin KnownPart /\ \A j \in 1..(i - 1) : m[j][1] \in KnownPart

TimestampInput ==
    /\ Has(snap.before.cols, call.col)
    /\ snap.before.types[IndexOf(snap.before.cols, call.col)] = "ts"

\* C8 as stated: a mapping containing an identifier other than year, month
\* and day ends in the invalid-partition-key error, wherever the identifier
\* stands and whatever the other entries are (read for a call whose
\* timestamp column is there and holds timestamps).
C8_UnknownPartAlwaysRejected ==
    (pc = "second" /\ ~ValidConfig(call.config) /\ TimestampInput) =>
        (last.status = "error" /\ last.err = PartitionKeyError)

\* the entries before position i can all be applied to df: there is none,
\* or the timestamp column is there, holds timestamps, and is the
\* destination of none of them but possibly the last
Applicable(df, col, m, i) ==
    \/ i = 1
    \/ /\ Has(df.cols, col)
       /\ df.types[IndexOf(df.cols, col)] = "ts"
       /\ \A j \in 1..(i - 2) : m[j][2] # col

\* C8 amended: a mapping containing an unknown identifier ends in the
\* invalid-partition-key error when the entries before the first unknown
\* identifier can all be applied; when they cannot, the call ends earlier
\* in the error of the entry that fails (missing or non-timestamp column).
C8_UnknownPartRejectedWhenReached ==
    (pc = "second" /\ ~ValidConfig(call.config)) =>
        /\ last.status = "error"
        /\ IF Applicable(snap.before, call.col, call.config, FirstUnknown(call.config))
           THEN last.err = PartitionKeyError
           ELSE last.err \in {"KeyError", "AttributeError"}

C8_Witness ==
    /\ pc = "second"
    /\ Len(call.config) = 2
    /\ call.config[1][1] = "month"
    /\ call.config[2][1] = "hour"
    /\ last.err = PartitionKeyError
    /\ snap.after # snap.before
    /\ snap.after.rows = <<<<20231225, 12>>>>

\* -------------------------------------- delete_from_athena, _delete_s3_object

\* str.split(sep) for a one-character separator
RECURSIVE SplitFrom(_, _, _)
SplitFrom(s, sep, cur) ==
    IF s = <<>> THEN <<cur>>
    ELSE IF Head(s) = sep THEN <<cur>> \o SplitFrom(Tail(s), sep, <<>>)
    ELSE SplitFrom(Tail(s), sep, Append(cur, Head(s)))
Split(s, sep) == SplitFrom(s, sep, <<>>)

\* sep.join(parts)
RECURSIVE JoinStr(_, _)
JoinStr(parts, sep) ==
    IF parts = <<>> THEN <<>>
    ELSE IF Len(parts) = 1 THEN Head(parts)
    ELSE Head(parts) \o <<sep>> \o JoinStr(Tail(parts), sep)

\* bucket_and_key_from_path(path): path[5:] split at "/", the first part is
\* the bucket and the rest, joined again, the key
bucket_and_key_from_path(path) ==
    LET parts == Split(SubSeq(path, 6, Len(path)), "/")
    IN  <<Head(parts), JoinStr(Tail(parts), "/")>>

\* load_itens_to_delete() over the rows of df['path']: one bucket name, that
\* of the last row, and the keys of all the rows in one list
load_itens_to_delete(pathcol) ==
    [bucket_name |-> IF pathcol = <<>> THEN <<>> ELSE pathcol[Len(pathcol)][1],
     keys |-> [i \in 1..Len(pathcol) |-> pathcol[i][2]],
     result |-> {}]

S3(bucket, key) == <<"s", "3", ":", "/", "/">> \o bucket \o <<"/">> \o key
bB1 == <<"b", "1">>
bB2 == <<"b", "2">>
kA == <<"a">>
kB == <<"b">>
kC == <<"c">>
kDE == <<"d", "/", "e">>

DelMaxPaths == 3

PathSet == {S3(bB1, kA), S3(bB1, kB), S3(bB2, kC), S3(bB2, kDE)}

InitDelete ==
    /\ heap = <<>>
    /\ pc = "start"
    /\ last = NoCall
    /\ call = NoArgs
    /\ snap = <<>>
    /\ paths = <<>>
    /\ requests = <<>>
    /\ dl = NoDl
    /\ refused = {}

\* delete_from_athena, line 170: read_athena returns the frame of the
\* query's "$path" column; the store is in some state of refusing keys
DReadAthena ==
    /\ pc = "start"
    /\ paths' \in SeqsUpTo(PathSet, DelMaxPaths)
    /\ refused' \in SUBSET {<<bB1, kA>>, <<bB2, kC>>}
    /\ pc' = "queried"
    /\ UNCHANGED <<heap, last, snap, call, requests, dl>>

\* delete_from_athena, line 171: the argument `path` is a name bound
\* nowhere, so evaluating the call's arguments raises NameError before
\* _delete_s3_object is entered; no request reaches the store
DDeleteFromAthena ==
    /\ pc = "queried"
    /\ last' = [op |-> "delete_from_athena", status |-> "error", err |-> "NameError", ret |-> 0]
    /\ pc' = "done"
    /\ UNCHANGED <<heap, snap, call, paths, requests, dl, refused>>

\* _delete_s3_object(df, s3_conn, path) called on the frame directly: the
\* "path" column and the single list of keys are built, then `s3` (the
\* parameter is s3_conn) raises NameError before any request is made
DDeleteS3Object ==
    /\ pc = "queried"
    /\ dl' = load_itens_to_delete([i \in 1..Len(paths) |-> bucket_and_key_from_path(paths[i])])
    /\ last' = [op |-> "_delete_s3_object", status |-> "error", err |-> "NameError", ret |-> 0]
    /\ pc' = "done"
    /\ UNCHANGED <<heap, snap, call, paths, requests, refused>>

NextDelete == DReadAthena \/ DDeleteFromAthena \/ DDeleteS3Object

SpecDelete == InitDelete /\ [][NextDelete]_vars

\* ------------------------------------------- claims on delete-by-query

DDone == pc = "done" /\ last.op = "delete_from_athena"
Selected == {bucket_and_key_from_path(paths[i]) : i \in DOMAIN paths}
Buckets == {bk[1] : bk \in Selected}
KeysIn(b) == {bk[2] : bk \in {x \in Selected : x[1] = b}}

\* C3: delete_matching issues exactly one bulk-delete request per distinct
\* bucket of the returned paths, each carrying exactly the keys of the paths
\* in that bucket.
C3_OneBatchPerBucket ==
    DDone =>
        /\ Len(requests) = Cardinality(Buckets)
        /\ \A b \in Buckets : \E i \in DOMAIN requests :
              requests[i].bucket = b /\ requests[i].keys = KeysIn(b)

PartialDeletionError == "PartialDeletionError"

\* C4: when the store reports keys of the selection as not deleted,
\* delete_matching ends in the partial-deletion error carrying exactly
\* those keys, and asks for none of them a second time.
C4_PartialFailureSurfaced ==
    (DDone /\ Selected \cap refused # {}) =>
        /\ last.status = "error"
        /\ last.err = PartialDeletionError
        /\ dl.result = Selected \cap refused
        /\ \A bk \in Selected \cap refused :
              Cardinality({i \in DOMAIN requests :
                             requests[i].bucket = bk[1] /\ bk[2] \in requests[i].keys}) = 1

\* ---------------------------------------------- the composition program

FrameMaxCalls == 3

FrameLeft ==
    {DF(<<cId, cV, cK_y>>, IntTypes(3), <<<<0, 1, 0>>, <<0, 1, 0>>>>),
     DF(<<cId, cTs>>, <<"int", "ts">>, <<<<0, 20240307>>>>)}
FrameRight ==
    {DF(<<cId, cV>>, IntTypes(2), <<<<0, 0>>, <<1, NULL>>>>),
     DF(<<cV>>, IntTypes(1), <<>>)}

FrameJoinArgs ==
    {JoinArg(None, None, Some(<<cId>>), "left", DefaultSuffixes),
     JoinArg(Some(<<cId>>), None, Some(<<cId>>), "inner", DefaultSuffixes)}

InitFrame ==
    /\ heap = <<>>
    /\ pc = "create"
    /\ last = NoCall
    /\ call = [n |-> 0, args |-> <<>>]
    /\ snap = <<>>
    /\ paths = <<>>
    /\ requests = <<>>
    /\ dl = NoDl
    /\ refused = {}

FCreate ==
    /\ pc = "create"
    /\ \E l \in FrameLeft, r \in FrameRight :
         heap' = create_df(create_df(heap, l.cols, l.types, l.rows), r.cols, r.types, r.rows)
    /\ pc' = "run"
    /\ UNCHANGED <<last, snap, call, paths, requests, dl, refused>>

CanCall == pc = "run" /\ call.n < FrameMaxCalls
Handles == DOMAIN heap

\* the caller makes a call: it remembers the objects as they were (snap)
Called(r, args) ==
    /\ heap' = r.heap
    /\ last' = [op |-> r.op, status |-> r.status, err |-> r.err, ret |-> r.ret]
    /\ call' = [n |-> call.n + 1, args |-> args]
    /\ snap' = heap
    /\ UNCHANGED <<pc, paths, requests, dl, refused>>

FJoin ==
    /\ CanCall
    /\ \E d1 \in Handles, d2 \in Handles, a \in FrameJoinArgs, dup \in PandasDup :
         Called(join(heap, d1, d2, a.left_on, a.right_on, a.on, a.how, a.suffixes, dup),
                <<d1, d2>>)

FGroupBy ==
    /\ CanCall
    /\ \E d \in Handles, how \in {"sum", "max"} :
         Called(groupby(heap, d, <<cId>>, <<cV>>, how), <<d>>)

FSelect ==
    /\ CanCall
    /\ \E d \in Handles : Called(select_columns(heap, d, <<cV, cId>>), <<d>>)

FDrop ==
    /\ CanCall
    /\ \E d \in Handles : Called(drop_columns(heap, d, <<cV>>), <<d>>)

FFilter ==
    /\ CanCall
    /\ \E d \in Handles : Called(filter_column(heap, d, cV, {1}), <<d>>)

FCast ==
    /\ CanCall
    /\ \E d \in Handles : Called(cast_column(heap, d, cV, "int"), <<d>>)

FDropDuplicates ==
    /\ CanCall
    /\ \E d \in Handles : Called(drop_duplicates(heap, d), <<d>>)

FApplyLambda ==
    /\ CanCall
    /\ \E d \in Handles, empty \in BOOLEAN :
         Called(apply_lambda(heap, d, cId, IF empty THEN "one" ELSE "inc", empty), <<d>>)

FApplyDfLambda ==
    /\ CanCall
    /\ \E d \in Handles : Called(apply_df_lambda(heap, d, <<cId, cV>>, "add"), <<d>>)

FLoadConst ==
    /\ CanCall
    /\ \E d \in Handles : Called(load_const_column(heap, d, cV, 1), <<d>>)

FLoadDatePartitionCols ==
    /\ CanCall
    /\ \E d \in Handles, config \in {DefaultPartitionConfig, <<<<"year", cId>>, <<"hour", cV>>>>} :
         Called(load_date_partition_cols(heap, d, cTs, config), <<d>>)

NextFrame ==
    \/ FCreate
    \/ FJoin
    \/ FGroupBy
    \/ FSelect
    \/ FDrop
    \/ FFilter
    \/ FCast
    \/ FDropDuplicates
    \/ FApplyLambda
    \/ FApplyDfLambda
    \/ FLoadConst
    \/ FLoadDatePartitionCols

SpecFrame == InitFrame /\ [][NextFrame]_vars

\* ------------------------------------------------- claims on the frame

InPlaceOps == {"load_const_column", "load_date_partition_cols"}
CopyOps == {"join", "groupby", "select_columns", "drop_columns", "filter_column",
            "cast_column", "drop_duplicates", "apply_lambda", "apply_df_lambda"}
FCalled == pc = "run" /\ call.n > 0

\* C7: after a call of join, groupby, select, drop, filter, cast,
\* drop_duplicates, apply_lambda or apply_df_lambda, successful or failed,
\* every relation that existed before the call has the columns, column
\* order and rows it had; a relation the caller holds changes only in a
\* call of load_const_column or load_date_partition_cols.
C7_OnlyInPlaceOpsChangeInputs ==
    FCalled =>
        /\ Len(heap) >= Len(snap)
        /\ last.op \in CopyOps => \A d \in DOMAIN snap : heap[d] = snap[d]
        /\ \A d \in DOMAIN snap : heap[d] # snap[d] => last.op \in InPlaceOps

\* the second call is a join whose left input has a column ending in "_y":
\* the column is gone from the result and still in the left input
C7_Witness ==
    /\ FCalled
    /\ call.n = 2
    /\ last.op = "join"
    /\ last.status = "ok"
    /\ Has(snap[call.args[1]].cols, cK_y)
    /\ Has(heap[call.args[1]].cols, cK_y)
    /\ ~Has(heap[last.ret].cols, cK_y)
    /\ Len(heap) = 3

====
